---- MODULE Spec2Model ----
(***************************************************************************)
(* Model of parser.py, the front end of dynamo-lang: a line-oriented       *)
(* language of reactions, drains and initial conditions.  Text is modelled *)
(* as sequences of one-character strings so that strip, split, partition   *)
(* and the token tests are computed, not assumed.                          *)
(***************************************************************************)
EXTENDS Integers, Sequences, FiniteSets, TLC

VARIABLES
  fd,        \* the input file: a sequence of raw lines
  pos,       \* raw lines consumed so far by cooked_lines
  ln,        \* the (line_number, text) pair cooked_lines last yielded
  name,      \* the name part of the statement (or parse_name's argument)
  val,       \* the value part of the statement
  ident,     \* the Identifier parse_name returned
  stmt,      \* the triple parse_file last yielded to get_dicts
  result,    \* get_dicts' ParsedDictResults under construction
  error,     \* the exception that ended the pass, NoError while none
  pc,        \* where the pass (or the function under study) stands
  folded,    \* history: the statements get_dicts has folded into result
  printed,   \* what main has printed: <<>> or <<result>>
  parsed,    \* get_dicts called directly: triples not yet consumed
  canon,     \* stringify_reaction of ident
  reparsed   \* outcome of parse_name on the canonical string

vars ==
  <<fd, pos, ln, name, val, ident, stmt, result, error, pc, folded, printed, parsed, canon,
    reparsed>>

(***************************************************************************)
(* Characters and Python's str methods                                     *)
(***************************************************************************)
Letters == {"A", "B"}
Digits == {"0", "1", "2", "5"}
Whitespace == {" "}

DigitVal(c) == CASE c = "0" -> 0 [] c = "1" -> 1 [] c = "2" -> 2 [] c = "5" -> 5 [] OTHER -> 0

Drop(s, n) == SubSeq(s, n + 1, Len(s))
Take(s, n) == SubSeq(s, 1, n)

RECURSIVE lstrip(_)
lstrip(s) == IF s # <<>> /\ Head(s) \in Whitespace THEN lstrip(Tail(s)) ELSE s

RECURSIVE rstrip(_)
rstrip(s) ==
  IF s # <<>> /\ s[Len(s)] \in Whitespace THEN rstrip(Take(s, Len(s) - 1)) ELSE s

strip(s) == rstrip(lstrip(s))

startswith(s, p) == Len(s) >= Len(p) /\ Take(s, Len(p)) = p

\* str.find: 1-based index of the first occurrence of p in s, 0 when absent
find(s, p) ==
  LET hits == {i \in 1..(Len(s) - Len(p) + 1) : SubSeq(s, i, i + Len(p) - 1) = p}
  IN IF hits = {} THEN 0 ELSE CHOOSE i \in hits : \A j \in hits : i <= j

contains(s, p) == find(s, p) # 0

\* str.partition: <<before, separator, after>>; <<s, "", "">> when absent
partition(s, sep) ==
  LET i == find(s, sep)
  IN IF i = 0 THEN <<s, <<>>, <<>>>>
     ELSE <<Take(s, i - 1), sep, Drop(s, i + Len(sep) - 1)>>

\* str.split(): the maximal runs of non-whitespace characters
RECURSIVE split_ws(_)
split_ws(s) ==
  LET t == lstrip(s)
      ends == {i \in 1..Len(t) : t[i] \in Whitespace}
      n == IF ends = {} THEN Len(t) + 1 ELSE CHOOSE i \in ends : \A j \in ends : i <= j
  IN IF t = <<>> THEN <<>> ELSE <<Take(t, n - 1)>> \o split_ws(Drop(t, n - 1))

\* str.split(sep): always at least one piece
RECURSIVE split_on(_, _)
split_on(s, sep) ==
  LET i == find(s, sep)
  IN IF i = 0 THEN <<s>> ELSE <<Take(s, i - 1)>> \o split_on(Drop(s, i + Len(sep) - 1), sep)

\* sep.join(parts)
RECURSIVE join(_, _)
join(sep, parts) ==
  IF parts = <<>> THEN <<>>
  ELSE IF Len(parts) = 1 THEN parts[1]
  ELSE parts[1] \o sep \o join(sep, Tail(parts))

isdecimal(t) == t # <<>> /\ \A i \in 1..Len(t) : t[i] \in Digits
isalpha(t) == t # <<>> /\ \A i \in 1..Len(t) : t[i] \in Letters

\* int() of a decimal token
RECURSIVE int_of(_)
int_of(t) == IF t = <<>> THEN 0 ELSE 10 * int_of(Take(t, Len(t) - 1)) + DigitVal(t[Len(t)])

(***************************************************************************)
(* Errors.  ParseError.formatted carries the line number in its message;   *)
(* the other exceptions Python raises carry none.                          *)
(***************************************************************************)
NoLine == -1

NoError == [exc |-> "None", lineno |-> NoLine, msg |-> "", arg |-> <<>>]

formatted(lineno, message) ==
  [exc |-> "ParseError", lineno |-> lineno, msg |-> message, arg |-> <<>>]

formatted_arg(lineno, message, tok) ==
  [exc |-> "ParseError", lineno |-> lineno, msg |-> message, arg |-> tok]

PyError(exc, message) == [exc |-> exc, lineno |-> NoLine, msg |-> message, arg |-> <<>>]

(***************************************************************************)
(* Identifiers                                                             *)
(***************************************************************************)
IdentifierType ==
  {"PARAM_DOUBLE", "PARAM_SINGLE_R", "PARAM_SINGLE_L", "DRAIN_OUT", "DRAIN_IN", "INITIAL_COND"}

ReactionTypes == {"PARAM_DOUBLE", "PARAM_SINGLE_R", "PARAM_SINGLE_L"}

ARROW_R == <<"-", ">">>
ARROW_L == <<"<", "-">>
ARROW_D == <<"<", "=", ">">>
PLUS == <<"+">>
SP == <<" ">>

\* rsymbols=None (drain and initial-condition kinds) is the empty sequence here
Identifier(identifier_type, lsymbols, rsymbols) ==
  [type |-> identifier_type, left_symbols |-> lsymbols, right_symbols |-> rsymbols]

NoIdentifier == Identifier("None", <<>>, <<>>)

\* variant excluded by C2: the reverse alias rendered without swapping sides
stringify_reaction_noswap(id) ==
  CASE id.type = "PARAM_DOUBLE" ->
         join(SP \o PLUS \o SP, id.left_symbols) \o SP \o ARROW_D \o SP
           \o join(SP \o PLUS \o SP, id.right_symbols)
    [] id.type \in {"PARAM_SINGLE_R", "PARAM_SINGLE_L"} ->
         join(SP \o PLUS \o SP, id.left_symbols) \o SP \o ARROW_R \o SP
           \o join(SP \o PLUS \o SP, id.right_symbols)
    [] OTHER -> <<>>

stringify_reaction(id) ==
  CASE id.type = "PARAM_DOUBLE" ->
         join(SP \o PLUS \o SP, id.left_symbols) \o SP \o ARROW_D \o SP
           \o join(SP \o PLUS \o SP, id.right_symbols)
    [] id.type = "PARAM_SINGLE_R" ->
         join(SP \o PLUS \o SP, id.left_symbols) \o SP \o ARROW_R \o SP
           \o join(SP \o PLUS \o SP, id.right_symbols)
    [] id.type = "PARAM_SINGLE_L" ->
         join(SP \o PLUS \o SP, id.right_symbols) \o SP \o ARROW_R \o SP
           \o join(SP \o PLUS \o SP, id.left_symbols)
    [] OTHER -> <<>>

Repeat(x, n) == [i \in 1..n |-> x]

\* The generator sort_out, run to exhaustion by tuple(): the symbols it
\* yields, or the first exception it raises.  next(iterator) on an exhausted
\* iterator raises StopIteration, which is not the ValueError the handler
\* catches; inside a generator it surfaces as RuntimeError (PEP 479).
RECURSIVE sort_out(_, _)
sort_out(symbols, lineno) ==
  IF symbols = <<>> THEN [err |-> NoError, syms |-> <<>>]
  ELSE
    LET sym == Head(symbols) IN
    IF isdecimal(sym) THEN
      IF Len(symbols) = 1
      THEN [err |-> PyError("RuntimeError", "generator raised StopIteration"), syms |-> <<>>]
      ELSE LET rest == sort_out(Drop(symbols, 2), lineno)
           IN IF rest.err # NoError THEN rest
              ELSE [err |-> NoError, syms |-> Repeat(symbols[2], int_of(sym)) \o rest.syms]
    ELSE IF isalpha(sym) THEN
      LET rest == sort_out(Tail(symbols), lineno)
      IN IF rest.err # NoError THEN rest
         ELSE [err |-> NoError, syms |-> <<sym>> \o rest.syms]
    ELSE IF sym = PLUS \/ sym = ARROW_R \/ sym = ARROW_D \/ sym = ARROW_L THEN
      sort_out(Tail(symbols), lineno)
    ELSE [err |-> formatted_arg(lineno, "Invalid identifier symbol", sym), syms |-> <<>>]

Operator(identifier_type) ==
  CASE identifier_type = "PARAM_DOUBLE" -> ARROW_D
    [] identifier_type = "PARAM_SINGLE_R" -> ARROW_R
    [] identifier_type = "PARAM_SINGLE_L" -> ARROW_L

\* parse_identifier: [err, id]; id is meaningful only when err = NoError
parse_identifier(identifier_type, lineno, raw) ==
  IF identifier_type \in {"DRAIN_OUT", "DRAIN_IN"} THEN
    LET s == sort_out(split_ws(raw), lineno) IN
    IF s.err # NoError THEN [err |-> s.err, id |-> NoIdentifier]
    ELSE IF Len(s.syms) # 1
    THEN [err |-> formatted(lineno, "Drain parameter statements does not support multipliers"),
          id |-> NoIdentifier]
    ELSE [err |-> NoError, id |-> Identifier(identifier_type, s.syms, <<>>)]
  ELSE IF identifier_type = "INITIAL_COND" THEN
    LET s == sort_out(split_ws(raw), lineno) IN
    IF s.err # NoError THEN [err |-> s.err, id |-> NoIdentifier]
    ELSE IF Len(s.syms) = 0
    THEN [err |-> formatted(lineno, "No symbols supplied"), id |-> NoIdentifier]
    ELSE [err |-> NoError, id |-> Identifier(identifier_type, s.syms, <<>>)]
  ELSE
    LET parts == partition(raw, Operator(identifier_type))
        left_symbols == split_ws(parts[1])
        right_symbols == split_ws(parts[3])
        l == sort_out(left_symbols, lineno)
        r == sort_out(right_symbols, lineno)
    IN IF Len(left_symbols) = Len(right_symbols) /\ Len(left_symbols) = 0
       THEN [err |-> formatted(lineno, "Empty symbol declaration"), id |-> NoIdentifier]
       ELSE IF l.err # NoError THEN [err |-> l.err, id |-> NoIdentifier]
       ELSE IF r.err # NoError THEN [err |-> r.err, id |-> NoIdentifier]
       ELSE [err |-> NoError, id |-> Identifier(identifier_type, l.syms, r.syms)]

get_identifier_type(nm) ==
  IF startswith(nm, ARROW_R) THEN "DRAIN_IN"
  ELSE IF startswith(nm, ARROW_L) THEN "DRAIN_OUT"
  ELSE IF contains(nm, ARROW_D) THEN "PARAM_DOUBLE"
  ELSE IF contains(nm, ARROW_R) THEN "PARAM_SINGLE_R"
  ELSE IF contains(nm, ARROW_L) THEN "PARAM_SINGLE_L"
  ELSE "INITIAL_COND"

parse_name(nm, line_number) ==
  parse_identifier(get_identifier_type(nm), line_number, nm)

(***************************************************************************)
(* Values: is_numeric (float(), then int()), ast.literal_eval, parse_value *)
(* The lexical forms are those of unsigned decimal text: digits, one       *)
(* point, names and quoted strings.                                        *)
(***************************************************************************)
DOT == <<".">>
COMMA == <<",">>

alldigits(t) == \A i \in 1..Len(t) : t[i] \in Digits

\* digits with exactly one point and at least one digit: "1.", ".5", "0.50"
ispointed(t) ==
  LET p == partition(t, DOT)
  IN p[2] = DOT /\ alldigits(p[1]) /\ alldigits(p[3]) /\ Len(p[1]) + Len(p[3]) > 0

\* float(number) succeeds
float_ok(number) == isdecimal(number) \/ ispointed(number)

\* int(number) succeeds
int_ok(number) == isdecimal(number)

is_numeric(number) == IF float_ok(number) THEN TRUE ELSE int_ok(number)

IntValue(n) == [t |-> "int", m |-> n, e |-> 0, s |-> <<>>]
StrValue(chars) == [t |-> "str", m |-> 0, e |-> 0, s |-> chars]

\* a float is m * 10^-e with no trailing zero in the fraction
RECURSIVE FloatValue(_, _)
FloatValue(m, e) ==
  IF e > 0 /\ m % 10 = 0 THEN FloatValue(m \div 10, e - 1)
  ELSE [t |-> "float", m |-> m, e |-> e, s |-> <<>>]

IsNumber(v) == v.t \in {"int", "float"}

\* a decimal integer literal of Python 3: no leading zero unless it is zero
isintliteral(t) == isdecimal(t) /\ (Head(t) # "0" \/ \A i \in 1..Len(t) : t[i] = "0")

\* a name: a letter, then letters and digits
isname(t) == t # <<>> /\ Head(t) \in Letters /\ \A i \in 1..Len(t) : t[i] \in Letters \cup Digits

\* adjacent string literals 'x' 'y' ...: <<TRUE, their concatenation>>
RECURSIVE strings(_)
strings(t) ==
  LET close == find(Tail(t), <<"'">>) IN
  IF t = <<>> \/ Head(t) # "'" \/ close = 0 THEN <<FALSE, <<>>>>
  ELSE IF lstrip(Drop(t, close + 1)) = <<>> THEN <<TRUE, SubSeq(t, 2, close)>>
  ELSE LET more == strings(lstrip(Drop(t, close + 1))) IN
       <<more[1], SubSeq(t, 2, close) \o more[2]>>

\* ast.literal_eval on node_or_string, leading blanks dropped
literal_eval(node_or_string) ==
  LET t == lstrip(node_or_string) IN
  IF isintliteral(t) THEN [err |-> NoError, val |-> IntValue(int_of(t))]
  ELSE IF ispointed(t) THEN
    [err |-> NoError,
     val |-> FloatValue(int_of(partition(t, DOT)[1] \o partition(t, DOT)[3]),
                        Len(partition(t, DOT)[3]))]
  ELSE IF strings(t)[1] THEN [err |-> NoError, val |-> StrValue(strings(t)[2])]
  ELSE IF isname(t) THEN [err |-> PyError("ValueError", "malformed node or string"),
                          val |-> IntValue(0)]
  ELSE [err |-> PyError("SyntaxError", "invalid syntax"), val |-> IntValue(0)]

\* the generator parse_plural_value run by tuple(): first failure wins
RECURSIVE parse_plural_value(_, _)
parse_plural_value(values, line_number) ==
  IF values = <<>> THEN [err |-> NoError, val |-> <<>>]
  ELSE
    LET v == strip(Head(values)) IN
    IF ~is_numeric(v)
    THEN [err |-> formatted(line_number, "Non-numeric value is not allowed"), val |-> <<>>]
    ELSE LET x == literal_eval(v) IN
         IF x.err # NoError THEN [err |-> x.err, val |-> <<>>]
         ELSE LET rest == parse_plural_value(Tail(values), line_number) IN
              IF rest.err # NoError THEN rest
              ELSE [err |-> NoError, val |-> <<x.val>> \o rest.val]

parse_value(value, line_number) ==
  IF contains(value, COMMA) THEN parse_plural_value(split_on(value, COMMA), line_number)
  ELSE LET x == literal_eval(strip(value)) IN
       IF x.err # NoError THEN [err |-> x.err, val |-> <<>>]
       ELSE [err |-> NoError, val |-> <<x.val>>]

(***************************************************************************)
(* Line filter, statement splitter and the generator parse_file            *)
(***************************************************************************)
HASH == <<"#">>
COLON == <<":">>

\* enumerate(file_descriptor) counts from 0: the number paired with the
\* i-th raw line (i = 1 for the first line of the file)
enumerate_lineno(i) == i - 1

\* cooked_lines keeps a raw line iff its stripped text passes this filter
cooked(raw) == Len(strip(raw)) > 0 /\ ~startswith(strip(raw), HASH)

get_name_val(line, line_number) ==
  LET p == partition(line, COLON) IN
  IF Len(p[2]) = 0
  THEN [err |-> formatted(line_number, "Unexpected statement"), name |-> <<>>, val |-> <<>>]
  ELSE [err |-> NoError, name |-> strip(p[1]), val |-> strip(p[3])]

Statement(line_number, identifier, value) ==
  [line_number |-> line_number, identifier |-> identifier, value |-> value]

NoStatement == Statement(NoLine, NoIdentifier, <<>>)

\* one iteration of parse_file's loop on a cooked line: the triple it
\* yields, or the exception raised by the splitter, the name or the value
parse_line(line, line_number) ==
  LET nv == get_name_val(line, line_number) IN
  IF nv.err # NoError THEN [err |-> nv.err, st |-> NoStatement]
  ELSE LET n == parse_name(nv.name, line_number) IN
       IF n.err # NoError THEN [err |-> n.err, st |-> NoStatement]
       ELSE LET v == parse_value(nv.val, line_number) IN
            IF v.err # NoError THEN [err |-> v.err, st |-> NoStatement]
            ELSE [err |-> NoError, st |-> Statement(line_number, n.id, v.val)]

(***************************************************************************)
(* ParsedDictResults and the body of get_dicts' loop                       *)
(***************************************************************************)
EmptyDict == [k \in {} |-> 0]

Put(d, k, v) == [x \in (DOMAIN d) \cup {k} |-> IF x = k THEN v ELSE d[x]]

ParsedDictResults == [initial |-> EmptyDict, params |-> EmptyDict, drain |-> EmptyDict]

\* what params holds: value[0] (a scalar) or value (the 2-tuple) itself
Scalar(v) == [shape |-> "scalar", v |-> <<v>>]
Pair(value) == [shape |-> "pair", v |-> value]

Raise(res, e) == [err |-> e, result |-> res]
Done(res) == [err |-> NoError, result |-> res]

IndexError == PyError("IndexError", "tuple index out of range")

fold_initial(res, st) ==
  IF Len(st.value) > 1
  THEN Raise(res, formatted(st.line_number, "Initial condition declaration expects 1 value"))
  ELSE IF Len(st.identifier.left_symbols) = 0 \/ Len(st.value) = 0 THEN Raise(res, IndexError)
  ELSE Done([res EXCEPT !.initial = Put(@, st.identifier.left_symbols[1], st.value[1])])

\* variant excluded by C6: any tuple of two or more values is stored
fold_param_double_lenient(res, st) ==
  IF Len(st.value) = 1
  THEN Done([res EXCEPT !.params = Put(@, stringify_reaction(st.identifier), Scalar(st.value[1]))])
  ELSE IF Len(st.value) >= 2
  THEN Done([res EXCEPT !.params = Put(@, stringify_reaction(st.identifier), Pair(st.value))])
  ELSE Raise(res, formatted(st.line_number, "Too many values declared for two-way reaction"))

fold_param_double(res, st) ==
  IF Len(st.value) = 1
  THEN Done([res EXCEPT !.params = Put(@, stringify_reaction(st.identifier), Scalar(st.value[1]))])
  ELSE IF Len(st.value) = 2
  THEN Done([res EXCEPT !.params = Put(@, stringify_reaction(st.identifier), Pair(st.value))])
  ELSE Raise(res, formatted(st.line_number, "Too many values declared for two-way reaction"))

fold_param_single(res, st) ==
  IF Len(st.value) # 1
  THEN Raise(res, formatted(st.line_number, "Too many values declared for one-way reaction"))
  ELSE Done([res EXCEPT !.params = Put(@, stringify_reaction(st.identifier), Scalar(st.value[1]))])

\* variant excluded by C3: the species' entry is replaced, not merged
fold_drain_out_overwrite(res, st) ==
  IF Len(st.value) # 1
  THEN Raise(res, formatted(st.line_number, "Too many values declared for drain parameter"))
  ELSE IF Len(st.identifier.left_symbols) = 0 THEN Raise(res, IndexError)
  ELSE Done([res EXCEPT !.drain = Put(@, st.identifier.left_symbols[1],
                                      Put(EmptyDict, "out", [factor |-> st.value[1]]))])

fold_drain_out(res, st) ==
  IF Len(st.value) # 1
  THEN Raise(res, formatted(st.line_number, "Too many values declared for drain parameter"))
  ELSE IF Len(st.identifier.left_symbols) = 0 THEN Raise(res, IndexError)
  ELSE LET x == st.identifier.left_symbols[1] IN
       IF x \in DOMAIN res.drain
       THEN Done([res EXCEPT !.drain = Put(@, x, Put(res.drain[x], "out", [factor |-> st.value[1]]))])
       ELSE Done([res EXCEPT !.drain = Put(@, x, Put(EmptyDict, "out", [factor |-> st.value[1]]))])

fold_drain_in(res, st) ==
  IF Len(st.value) # 1
  THEN Raise(res, formatted(st.line_number, "Too many values declared for drain parameter"))
  ELSE IF Len(st.identifier.left_symbols) = 0 THEN Raise(res, IndexError)
  ELSE LET x == st.identifier.left_symbols[1] IN
       IF x \in DOMAIN res.drain
       THEN Done([res EXCEPT !.drain = Put(@, x, Put(res.drain[x], "in", [constant |-> st.value[1]]))])
       ELSE Done([res EXCEPT !.drain = Put(@, x, Put(EmptyDict, "in", [constant |-> st.value[1]]))])

\* the if/elif chain of get_dicts for one (line_number, identifier, value)
get_dicts_fold(res, st) ==
  CASE st.identifier.type = "INITIAL_COND" -> fold_initial(res, st)
    [] st.identifier.type = "PARAM_DOUBLE" -> fold_param_double(res, st)
    [] st.identifier.type \in {"PARAM_SINGLE_L", "PARAM_SINGLE_R"} -> fold_param_single(res, st)
    [] st.identifier.type = "DRAIN_OUT" -> fold_drain_out(res, st)
    [] st.identifier.type = "DRAIN_IN" -> fold_drain_in(res, st)
    [] OTHER -> Done(res)

(***************************************************************************)
(* Inputs                                                                  *)
(***************************************************************************)
MaxLines == 3

SymA == <<"A">>
SymB == <<"B">>
One == <<"1">>
Two == <<"2">>

Words(tokens) == join(SP, tokens)

FileLines ==
  { SP \o SP,                                                    \* blank
    HASH \o SymA,                                                \* comment
    SP \o Words(<<SymA, COLON, One>>) \o SP,                     \* A : 1
    Words(<<SymB, ARROW_R, SymA, COLON, Two>>),                  \* B -> A : 2
    Words(<<SymA, ARROW_L, SymB, COLON, One>>),                  \* A <- B : 1
    Words(<<ARROW_L, SymA, COLON, One>>),                        \* <- A : 1
    Words(<<ARROW_L, SymA, COLON, Two>>),                        \* <- A : 2
    Words(<<ARROW_R, SymA, COLON, One>>),                        \* -> A : 1
    Words(<<ARROW_R, SymA, COLON, Two>>),                        \* -> A : 2
    Words(<<SymA, ARROW_D, SymB, COLON, One \o COMMA, Two>>),    \* A <=> B : 1, 2
    Words(<<SymA, ARROW_D, SymB, COLON, One \o COMMA, Two \o COMMA, One>>),
    SymA,                                                        \* no separator
    Words(<<SymA, Two, COLON, One>>),                            \* A 2 : 1
    Words(<<SymA, COLON, SymB>>) }                               \* A : B

Files == UNION {[1..n -> FileLines] : n \in 0..MaxLines}

NoParse == [err |-> NoError, id |-> NoIdentifier]

NoLinePair == [no |-> NoLine, text |-> <<>>]

(***************************************************************************)
(* The pass of main.  parse_file is a generator driven by get_dicts' loop: *)
(* one line is cooked, split, parsed and folded before the next is read.   *)
(***************************************************************************)
Init ==
  /\ fd \in Files
  /\ pos = 0
  /\ ln = NoLinePair
  /\ name = <<>>
  /\ val = <<>>
  /\ ident = NoIdentifier
  /\ stmt = NoStatement
  /\ result = ParsedDictResults
  /\ error = NoError
  /\ pc = "next"
  /\ folded = <<>>
  /\ printed = <<>>
  /\ parsed = <<>>
  /\ canon = <<>>
  /\ reparsed = NoParse

\* cooked_lines drops a blank or comment line
SkipLine ==
  /\ pc = "next"
  /\ pos < Len(fd)
  /\ ~cooked(fd[pos + 1])
  /\ pos' = pos + 1
  /\ UNCHANGED <<fd, ln, name, val, ident, stmt, result, error, pc, printed, parsed,
                 canon, reparsed, folded>>

\* cooked_lines yields the next surviving line with its number
CookLine ==
  /\ pc = "next"
  /\ pos < Len(fd)
  /\ cooked(fd[pos + 1])
  /\ ln' = [no |-> enumerate_lineno(pos + 1), text |-> strip(fd[pos + 1])]
  /\ pos' = pos + 1
  /\ pc' = "split"
  /\ UNCHANGED <<fd, name, val, ident, stmt, result, error, printed, parsed, canon, reparsed,
                 folded>>

\* variant excluded by C10: a line without separator is passed over
SplitStatement_skip ==
  /\ pc = "split"
  /\ LET nv == get_name_val(ln.text, ln.no) IN
       IF nv.err = NoError
       THEN name' = nv.name /\ val' = nv.val /\ pc' = "name"
       ELSE name' = name /\ val' = val /\ pc' = "next"
  /\ UNCHANGED <<fd, pos, ln, ident, stmt, result, error, printed, parsed, canon, reparsed,
                 folded>>

\* parse_file: name, val = get_name_val(line, line_number)
SplitStatement ==
  /\ pc = "split"
  /\ LET nv == get_name_val(ln.text, ln.no) IN
       IF nv.err = NoError
       THEN name' = nv.name /\ val' = nv.val /\ pc' = "name" /\ error' = error
       ELSE name' = name /\ val' = val /\ pc' = "raised" /\ error' = nv.err
  /\ UNCHANGED <<fd, pos, ln, ident, stmt, result, printed, parsed, canon, reparsed, folded>>

\* parse_file: parse_name(name, line_number)
ParseName ==
  /\ pc = "name"
  /\ LET n == parse_name(name, ln.no) IN
       IF n.err = NoError
       THEN ident' = n.id /\ pc' = "value" /\ error' = error
       ELSE ident' = ident /\ pc' = "raised" /\ error' = n.err
  /\ UNCHANGED <<fd, pos, ln, name, val, stmt, result, printed, parsed, canon, reparsed, folded>>

\* parse_file: parse_value(val, line_number), then the yield
ParseValue ==
  /\ pc = "value"
  /\ LET v == parse_value(val, ln.no) IN
       IF v.err = NoError
       THEN stmt' = Statement(ln.no, ident, v.val) /\ pc' = "fold" /\ error' = error
       ELSE stmt' = stmt /\ pc' = "raised" /\ error' = v.err
  /\ UNCHANGED <<fd, pos, ln, name, val, ident, result, printed, parsed, canon, reparsed, folded>>

\* variant excluded by C1: a statement the aggregator rejects is dropped and
\* the pass goes on to return what it has
Fold_swallow ==
  /\ pc = "fold"
  /\ LET r == get_dicts_fold(result, stmt) IN
       IF r.err = NoError
       THEN result' = r.result /\ folded' = Append(folded, stmt)
       ELSE result' = result /\ folded' = folded
  /\ pc' = "next"
  /\ UNCHANGED <<fd, pos, ln, name, val, ident, stmt, error, printed, parsed, canon, reparsed>>

\* the body of get_dicts' loop on the yielded statement
Fold ==
  /\ pc = "fold"
  /\ LET r == get_dicts_fold(result, stmt) IN
       IF r.err = NoError
       THEN /\ result' = r.result
            /\ folded' = Append(folded, stmt)
            /\ pc' = "next"
            /\ error' = error
       ELSE /\ result' = result
            /\ folded' = folded
            /\ pc' = "raised"
            /\ error' = r.err
  /\ UNCHANGED <<fd, pos, ln, name, val, ident, stmt, printed, parsed, canon, reparsed>>

\* the iterable get_dicts loops over is exhausted: get_dicts returns result
Return ==
  /\ pc = "next"
  /\ pos = Len(fd)
  /\ parsed = <<>>
  /\ pc' = "returned"
  /\ UNCHANGED <<fd, pos, ln, name, val, ident, stmt, result, error, printed, parsed,
                 canon, reparsed, folded>>

\* main prints the result
PrintResult ==
  /\ pc = "returned"
  /\ printed' = <<result>>
  /\ pc' = "printed"
  /\ UNCHANGED <<fd, pos, ln, name, val, ident, stmt, result, error, parsed, canon, reparsed,
                 folded>>

Next ==
  \/ SkipLine
  \/ CookLine
  \/ SplitStatement
  \/ ParseName
  \/ ParseValue
  \/ Fold
  \/ Return
  \/ PrintResult

Spec == Init /\ [][Next]_vars

(***************************************************************************)
(* get_dicts called on an iterable of triples of the caller's making       *)
(***************************************************************************)
MaxParsed == 2
MaxValues == 3

Half == FloatValue(5, 1)

\* value tuples of every length up to MaxValues, all ones or led by a half
FoldValues ==
  {[i \in 1..n |-> IF i = k THEN Half ELSE IntValue(1)] : n \in 0..MaxValues, k \in 0..1}

FoldIdentifiers ==
  { Identifier("PARAM_DOUBLE", <<SymA>>, <<SymB>>),
    Identifier("PARAM_SINGLE_R", <<SymA>>, <<SymB>>),
    Identifier("INITIAL_COND", <<SymA>>, <<>>) }

Triples == {Statement(1, i, v) : i \in FoldIdentifiers, v \in FoldValues}

InitFold ==
  /\ parsed \in UNION {[1..n -> Triples] : n \in 0..MaxParsed}
  /\ fd = <<>>
  /\ pos = 0
  /\ ln = NoLinePair
  /\ name = <<>>
  /\ val = <<>>
  /\ ident = NoIdentifier
  /\ stmt = NoStatement
  /\ result = ParsedDictResults
  /\ error = NoError
  /\ pc = "next"
  /\ folded = <<>>
  /\ printed = <<>>
  /\ canon = <<>>
  /\ reparsed = NoParse

\* get_dicts' loop takes the next triple of the iterable
TakeParsed ==
  /\ pc = "next"
  /\ parsed # <<>>
  /\ stmt' = Head(parsed)
  /\ parsed' = Tail(parsed)
  /\ pc' = "fold"
  /\ UNCHANGED <<fd, pos, ln, name, val, ident, result, error, printed, canon, reparsed, folded>>

NextFold == TakeParsed \/ Fold \/ Return

SpecFold == InitFold /\ [][NextFold]_vars

(***************************************************************************)
(* parse_name called on a name, stringify_reaction on what it returns, and *)
(* parse_name again on the canonical string                                *)
(***************************************************************************)
MaxTokens == 4

Zero == <<"0">>

\* symbols, multipliers, operators, a token that is none of them ("A2") and
\* a reaction written without blanks ("A->B")
NameTokens ==
  {SymA, SymB, Two, Zero, PLUS, ARROW_R, ARROW_L, ARROW_D, SymA \o Two, SymA \o ARROW_R \o SymB}

Names == {Words(w) : w \in UNION {[1..n -> NameTokens] : n \in 1..MaxTokens}}

InitName ==
  /\ name \in Names
  /\ fd = <<>>
  /\ pos = 0
  /\ ln = [no |-> 0, text |-> <<>>]
  /\ val = <<>>
  /\ ident = NoIdentifier
  /\ stmt = NoStatement
  /\ result = ParsedDictResults
  /\ error = NoError
  /\ pc = "name"
  /\ folded = <<>>
  /\ printed = <<>>
  /\ parsed = <<>>
  /\ canon = <<>>
  /\ reparsed = NoParse

Stringify ==
  /\ pc = "value"
  /\ ident.type \in ReactionTypes
  /\ canon' = stringify_reaction(ident)
  /\ pc' = "canon"
  /\ UNCHANGED <<fd, pos, ln, name, val, ident, stmt, result, error, printed, parsed, reparsed,
                 folded>>

Reparse ==
  /\ pc = "canon"
  /\ reparsed' = parse_name(canon, ln.no)
  /\ pc' = "reparsed"
  /\ UNCHANGED <<fd, pos, ln, name, val, ident, stmt, result, error, printed, parsed, canon,
                 folded>>

NextName == ParseName \/ Stringify \/ Reparse

SpecName == InitName /\ [][NextName]_vars

(***************************************************************************)
(* parse_value called on a value part                                      *)
(***************************************************************************)
MaxPieces == 3

ValueTokens ==
  {One, Two, <<"0", "1">>, <<"0", ".", "5">>, SymA, <<"'", "A", "'">>, COMMA, SP}

RECURSIVE Concat(_)
Concat(w) == IF w = <<>> THEN <<>> ELSE Head(w) \o Concat(Tail(w))

ValueTexts == {Concat(w) : w \in UNION {[1..n -> ValueTokens] : n \in 0..MaxPieces}}

InitValue ==
  /\ val \in {strip(v) : v \in ValueTexts}
  /\ fd = <<>>
  /\ pos = 0
  /\ ln = [no |-> 0, text |-> <<>>]
  /\ name = SymA
  /\ ident = Identifier("INITIAL_COND", <<SymA>>, <<>>)
  /\ stmt = NoStatement
  /\ result = ParsedDictResults
  /\ error = NoError
  /\ pc = "value"
  /\ folded = <<>>
  /\ printed = <<>>
  /\ parsed = <<>>
  /\ canon = <<>>
  /\ reparsed = NoParse

NextValue == ParseValue

SpecValue == InitValue /\ [][NextValue]_vars

(***************************************************************************)
(* Properties of the pass                                                  *)
(***************************************************************************)
Ended == pc \in {"returned", "printed"}

\* the pass as one left fold over the file: the first exception or the result
RECURSIVE WholePass(_, _, _)
WholePass(file, i, res) ==
  IF i > Len(file) THEN Done(res)
  ELSE IF ~cooked(file[i]) THEN WholePass(file, i + 1, res)
  ELSE LET p == parse_line(strip(file[i]), enumerate_lineno(i)) IN
       IF p.err # NoError THEN Raise(res, p.err)
       ELSE LET f == get_dicts_fold(res, p.st) IN
            IF f.err # NoError THEN f ELSE WholePass(file, i + 1, f.result)

\* C1: a pass ends either with every statement accepted and the result of
\* folding all of them returned and printed, or with an exception and
\* nothing printed, the statements accepted before the failure included.
C1_AllOrNothing ==
  LET w == WholePass(fd, 1, ParsedDictResults) IN
  /\ Ended => error = NoError /\ w.err = NoError /\ result = w.result
  /\ pc = "printed" => printed = <<w.result>>
  /\ pc # "printed" => printed = <<>>
  /\ pc = "raised" => error # NoError /\ error = w.err /\ result = w.result
  /\ error # NoError => pc = "raised"
  /\ pc \in {"next", "split", "name", "value", "fold", "returned", "printed", "raised"}
  /\ pos <= Len(fd)

\* a pass that failed after accepting statements: the partial result exists
\* and is not printed
C1_Witness ==
  pc = "raised" /\ result.params # EmptyDict /\ result.drain # EmptyDict /\ printed = <<>>

IsMirror(a, b) ==
  /\ a.type = "PARAM_SINGLE_L"
  /\ b.type = "PARAM_SINGLE_R"
  /\ a.left_symbols # <<>>
  /\ a.right_symbols # <<>>
  /\ a.left_symbols = b.right_symbols
  /\ a.right_symbols = b.left_symbols

ReactionsFolded == {i \in 1..Len(folded) : folded[i].identifier.type \in ReactionTypes}

KeyOf(i) == stringify_reaction(folded[i].identifier)

LastWithKey(k) ==
  CHOOSE i \in ReactionsFolded : KeyOf(i) = k /\ \A j \in ReactionsFolded : KeyOf(j) = k => j <= i

\* C2: 'L <- R' and 'R -> L' render to the same canonical string, so once
\* both are folded params holds one entry under it, with the value of the
\* last statement of that key; params has one entry per canonical string.
C2_AliasCollides ==
  /\ \A i, j \in ReactionsFolded :
       IsMirror(folded[i].identifier, folded[j].identifier) =>
         /\ KeyOf(i) = KeyOf(j)
         /\ KeyOf(i) \in DOMAIN result.params
         /\ result.params[KeyOf(i)].shape = "scalar"
         /\ result.params[KeyOf(i)].v = <<folded[LastWithKey(KeyOf(i))].value[1]>>
  /\ DOMAIN result.params = {KeyOf(i) : i \in ReactionsFolded}

\* 'B -> A : 2' then 'A <- B : 1' folded: one entry, holding the alias' value
C2_Witness ==
  /\ Len(folded) = 2
  /\ IsMirror(folded[2].identifier, folded[1].identifier)
  /\ folded[1].value # folded[2].value
  /\ Cardinality(DOMAIN result.params) = 1

DrainsFolded(x, type) ==
  {i \in 1..Len(folded) : /\ folded[i].identifier.type = type
                          /\ folded[i].identifier.left_symbols = <<x>>}

Latest(S) == CHOOSE i \in S : \A j \in S : j <= i

Species == {SymA, SymB}

SubField(x, field) ==
  IF x \in DOMAIN result.drain /\ field \in DOMAIN result.drain[x]
  THEN <<result.drain[x][field]>>
  ELSE <<>>

\* C3: for every species, drain[X].out.factor is the value of the last
\* outflow statement folded and is absent when there was none, and
\* drain[X].in.constant likewise for inflow statements: neither kind of
\* statement touches the other sub-field, whatever the order.
C3_DrainMerge ==
  \A x \in Species :
    /\ SubField(x, "out") =
         IF DrainsFolded(x, "DRAIN_OUT") = {} THEN <<>>
         ELSE <<[factor |-> folded[Latest(DrainsFolded(x, "DRAIN_OUT"))].value[1]]>>
    /\ SubField(x, "in") =
         IF DrainsFolded(x, "DRAIN_IN") = {} THEN <<>>
         ELSE <<[constant |-> folded[Latest(DrainsFolded(x, "DRAIN_IN"))].value[1]]>>
    /\ x \in DOMAIN result.drain <=>
         DrainsFolded(x, "DRAIN_OUT") \cup DrainsFolded(x, "DRAIN_IN") # {}

\* inflow, outflow, then a second outflow with another value: both sub-fields
\* are there and 'out' holds the later factor
C3_Witness ==
  /\ Len(folded) = 3
  /\ folded[1].identifier.type = "DRAIN_IN"
  /\ folded[2].identifier.type = "DRAIN_OUT"
  /\ folded[3].identifier.type = "DRAIN_OUT"
  /\ folded[3].value # folded[2].value
  /\ DOMAIN result.drain[SymA] = {"out", "in"}

\* C4: the number cooked_lines pairs with a line, carried into the statement
\* and into every ParseError, is the line's 1-based position in the input.
C4_LineNumbersOneBased ==
  /\ pc \in {"split", "name", "value", "fold"} => ln.no = pos
  /\ pc = "fold" => stmt.line_number = pos
  /\ pc = "raised" /\ error.exc = "ParseError" => error.lineno = pos

\* the error of line i of the file taken alone, at whatever stage it arises
DefectOf(i) ==
  LET p == parse_line(strip(fd[i]), enumerate_lineno(i)) IN
  IF p.err # NoError THEN p.err ELSE get_dicts_fold(ParsedDictResults, p.st).err

Defective == {i \in 1..Len(fd) : cooked(fd[i]) /\ DefectOf(i) # NoError}

Earliest(S) == CHOOSE i \in S : \A j \in S : i <= j

\* C10: the exception raised is that of the earliest defective line, be it
\* the splitter's, the name's, the value's or the aggregator's, and no line
\* after that one is ever read; a pass without a defective line returns.
C10_EarliestDefectWins ==
  LET d == Defective IN
  /\ pc = "raised" =>
       /\ d # {}
       /\ pos = Earliest(d)
       /\ error = DefectOf(Earliest(d))
  /\ d # {} => pos <= Earliest(d) /\ ~Ended
  /\ d = {} => pc # "raised"

\* an arity error of the aggregator is raised although a later line has no
\* separator
C10_Witness ==
  /\ pc = "raised"
  /\ error.msg = "Too many values declared for two-way reaction"
  /\ \E j \in (pos + 1)..Len(fd) :
       cooked(fd[j]) /\ get_name_val(strip(fd[j]), enumerate_lineno(j)).err # NoError

(***************************************************************************)
(* Properties of get_dicts on its own                                      *)
(***************************************************************************)
\* C6: folding a reversible reaction stores the scalar for one value, the
\* ordered pair (forward, reverse) for two, and for none or three and more
\* raises the two-way arity error with params as it was.
C6_ReversibleArity ==
  [][(pc = "fold" /\ stmt.identifier.type = "PARAM_DOUBLE") =>
       LET key == stringify_reaction(stmt.identifier)
           n == Len(stmt.value)
       IN /\ n = 1 =>
               /\ pc' = "next"
               /\ DOMAIN result'.params = DOMAIN result.params \cup {key}
               /\ result'.params[key].shape = "scalar"
               /\ result'.params[key].v = <<stmt.value[1]>>
          /\ n = 2 =>
               /\ pc' = "next"
               /\ DOMAIN result'.params = DOMAIN result.params \cup {key}
               /\ result'.params[key].shape = "pair"
               /\ result'.params[key].v = <<stmt.value[1], stmt.value[2]>>
          /\ n \in {1, 2} =>
               /\ error' = NoError
               /\ \A k \in DOMAIN result.params \ {key} : result'.params[k] = result.params[k]
               /\ result'.initial = result.initial
               /\ result'.drain = result.drain
          /\ n \notin {1, 2} =>
               /\ pc' = "raised"
               /\ error' = formatted(stmt.line_number,
                                     "Too many values declared for two-way reaction")
               /\ result' = result
    ]_vars

\* a reversible reaction without values is refused after one with a pair of
\* values was stored
C6_Witness ==
  /\ pc = "raised"
  /\ stmt.identifier.type = "PARAM_DOUBLE"
  /\ Len(stmt.value) = 0
  /\ \E k \in DOMAIN result.params : result.params[k].shape = "pair"

(***************************************************************************)
(* Properties of parse_name, stringify_reaction and parse_value            *)
(***************************************************************************)
NameParsed == pc \in {"value", "canon", "reparsed"}

Symbols(id) == {id.left_symbols[i] : i \in 1..Len(id.left_symbols)}
                 \cup {id.right_symbols[i] : i \in 1..Len(id.right_symbols)}

\* the first decimal token is the last token or stands before a token that
\* is not alphabetic
DanglingMultiplier(tokens) ==
  \E i \in 1..Len(tokens) :
    /\ isdecimal(tokens[i])
    /\ \A j \in 1..(i - 1) : ~isdecimal(tokens[j])
    /\ i = Len(tokens) \/ ~isalpha(tokens[i + 1])

\* C5: a multiplier not followed by an alphabetic symbol makes parse_name
\* fail with the ParseError "Invalid multiplier" of that line, and no
\* identifier holds a non-alphabetic symbol.
C5_InvalidMultiplier ==
  /\ (pc # "name" /\ DanglingMultiplier(split_ws(name))) =>
       pc = "raised" /\ error = formatted(ln.no, "Invalid multiplier")
  /\ NameParsed => \A sym \in Symbols(ident) : isalpha(sym)

\* reverse-alias identifiers read as the forward reaction they stand for
Forward(id) ==
  IF id.type = "PARAM_SINGLE_L"
  THEN Identifier("PARAM_SINGLE_R", id.right_symbols, id.left_symbols)
  ELSE id

\* C7: the canonical string of a reaction identifier parses again, to the
\* same identifier up to the alias swap.
C7_RoundTrip ==
  pc = "reparsed" => reparsed.err = NoError /\ Forward(reparsed.id) = Forward(ident)

\* C8: a reaction identifier parse_name returns has symbols on both sides.
C8_BothSidesNonEmpty ==
  (NameParsed /\ ident.type \in ReactionTypes) =>
    ident.left_symbols # <<>> /\ ident.right_symbols # <<>>

\* C9: parse_value returns a non-empty tuple of numbers, or raises the
\* ParseError of that line: "Non-numeric value is not allowed" for a piece of
\* a comma-separated list, an invalid-literal error for a single value.
C9_NumericOrParseError ==
  /\ pc = "fold" =>
       /\ stmt.value # <<>>
       /\ \A i \in 1..Len(stmt.value) : IsNumber(stmt.value[i])
  /\ pc = "raised" =>
       /\ error.exc = "ParseError"
       /\ error.lineno = ln.no
       /\ contains(val, COMMA) => error.msg = "Non-numeric value is not allowed"
       /\ ~contains(val, COMMA) => error.msg = "Invalid literal"

====
